---------------------------- MODULE Spec2Model ----------------------------
(***************************************************************************)
(* A model of dzai: the retrying HTTP transport (retry_utils.py), the todo *)
(* toolset (tools/registry.py), the agent run event loop and the           *)
(* construction of agents from their specifications (agent.py).            *)
(*                                                                         *)
(* The four parts share no state.  Each has a specification of its own     *)
(* (SpecRetry, SpecTodo, SpecLoop, SpecConfig) in which the variables of   *)
(* the other parts keep their initial values.                              *)
(***************************************************************************)
EXTENDS Integers, Sequences, FiniteSets, TLC

VARIABLES
    \* ---- retrying transport ----
    tpc,             \* "idle" | "attempting" | "waiting" | "returned" | "raised"
    attempt_number,  \* tenacity's RetryCallState.attempt_number
    upcoming_sleep,  \* tenacity's RetryCallState.upcoming_sleep
    last,            \* outcome of the latest attempt
    result,          \* what the caller of handle_async_request observed
    reqs,            \* logical requests sent through the transport so far
    seen,            \* history: the tag of every attempt's outcome, this request
    waits,           \* history: every wait slept, this request
    hinted,          \* history: some response of this request had a retry-after header
    \* ---- todo toolset ----
    todos,           \* state.todos
    ret,             \* the value the latest tool call returned
    op,              \* history: the latest tool call
    prev,            \* history: state.todos before the latest tool call
    phase,           \* history: position in the sequence add(t); complete(t); list()
    \* ---- agent run event loop ----
    lpc,             \* "iter" | "stream" | "tools" | "done"
    run,             \* the nodes the producer has still to yield
    script,          \* history: the nodes the producer yields in this run
    step_count,
    thinking_buffer,
    text_buffer,
    log,             \* the records handed to the logger, in order
    events,          \* history: the events of the latest model request stream
    budget,          \* stream events the producer may still emit in this run
    \* ---- agent construction ----
    cpc,             \* "start" | "loaded" | "running" | "done" | "failed"
    cfg,             \* the YAML files of the run
    error,           \* the exception that ended main(), or "none"
    failedAgent,     \* 0: the top-level agent, i: sub-agent i, -1: nobody
    topRequests,     \* requests the top-level agent attempted to its provider
    subRequests      \* requests the sub-agents attempted to their providers

transportVars == <<tpc, attempt_number, upcoming_sleep, last, result, reqs, seen, waits, hinted>>
todoVars      == <<todos, ret, op, prev, phase>>
loopVars      == <<lpc, run, script, step_count, thinking_buffer, text_buffer, log, events, budget>>
configVars    == <<cpc, cfg, error, failedAgent, topRequests, subRequests>>
vars          == <<transportVars, todoVars, loopVars, configVars>>

Min(a, b) == IF a <= b THEN a ELSE b
Max(a, b) == IF a >= b THEN a ELSE b

RECURSIVE Pow2(_)
Pow2(n) == IF n <= 0 THEN 1 ELSE 2 * Pow2(n - 1)

RECURSIVE SumSeq(_)
SumSeq(s) == IF s = <<>> THEN 0 ELSE Head(s) + SumSeq(Tail(s))

(***************************************************************************)
(*                        THE RETRYING TRANSPORT                           *)
(***************************************************************************)

\* Logical requests one behaviour sends through the transport.
MaxRequests == 2

\* stop_after_attempt(5)
MaxAttempts == 5
\* wait_exponential(multiplier=1, max=60)
Multiplier == 1
BackoffMax == 60
\* wait_retry_after(..., max_wait=300)
MaxWait == 300

\* The retry-after header of a response: absent, a number of seconds, an HTTP
\* date (v: the seconds from now to that date), or text that is neither.
NoHint == [form |-> "none", v |-> 0]
Hints ==
    { NoHint,
      [form |-> "secs", v |-> 7], [form |-> "secs", v |-> 400],
      [form |-> "date", v |-> -5], [form |-> "date", v |-> 9],
      [form |-> "junk", v |-> 0] }

Statuses == {200, 404, 429, 500, 529}

\* The classes of the exceptions in play, each with its base classes.
\* httpx's ConnectError and ReadError are what the wrapped httpx transport
\* raises when a socket fails to connect or is reset; ConnectionResetError is
\* the builtin the retry predicate names through its base ConnectionError.
Bases(cls) ==
    CASE cls = "HTTPStatusError"      -> {"HTTPStatusError", "HTTPError", "Exception"}
      [] cls = "ConnectError"         -> {"ConnectError", "NetworkError", "TransportError",
                                          "RequestError", "HTTPError", "Exception"}
      [] cls = "ReadError"            -> {"ReadError", "NetworkError", "TransportError",
                                          "RequestError", "HTTPError", "Exception"}
      [] cls = "ConnectionResetError" -> {"ConnectionResetError", "ConnectionError",
                                          "OSError", "Exception"}
      [] OTHER                        -> {}

isinstance(cls, classes) == Bases(cls) \cap classes # {}

\* What the underlying HTTP client raises for a connection-level failure.
ClientConnectionFailures == {"ConnectError", "ReadError"}
TransportExceptions == ClientConnectionFailures \cup {"ConnectionResetError"}

\* What wrapped.handle_async_request(req) can do: answer or raise.
Response(s, h) == [exc |-> "none", status |-> s, hint |-> h]
Raised(cls)    == [exc |-> cls, status |-> 0, hint |-> NoHint]
NoOutcome      == [exc |-> "none", status |-> 0, hint |-> NoHint]
WrappedOutcomes ==
    { Response(s, h) : s \in Statuses, h \in Hints }
        \cup { Raised(c) : c \in TransportExceptions }

\* A mutant: every error status raises.
should_retry_status_AnyError(response) == response.status >= 400

\* should_retry_status: TRUE when it raises HTTPStatusError (raise_for_status
\* on a 429 or a 529), FALSE when it returns.
should_retry_status(response) == response.status \in {429, 529}

\* The outcome of one attempt of the retried inner function: the wrapped
\* transport's exception, or the HTTPStatusError validate_response raised
\* (it carries the response), or the response.
AttemptOutcome(o) ==
    IF o.exc = "none" /\ should_retry_status(o)
    THEN [o EXCEPT !.exc = "HTTPStatusError"]
    ELSE o

\* retry=retry_if_exception_type((HTTPStatusError, ConnectionError))
retry(o) == o.exc # "none" /\ isinstance(o.exc, {"HTTPStatusError", "ConnectionError"})

\* A mutant: one attempt too many.
stop_OffByOne(n) == n > MaxAttempts

\* stop=stop_after_attempt(5)
stop(n) == n >= MaxAttempts

\* A mutant: the exponent is the attempt number.
wait_exponential_FromTwo(n) == Max(0, Min(Multiplier * Pow2(n), BackoffMax))

\* wait_exponential(multiplier=1, max=60), after attempt n failed
wait_exponential(n) == Max(0, Min(Multiplier * Pow2(n - 1), BackoffMax))

\* wait_retry_after(fallback_strategy=wait_exponential(...), max_wait=300)
wait(o, n) ==
    IF o.exc = "HTTPStatusError" /\ o.hint.form = "secs"
    THEN Min(o.hint.v, MaxWait)
    ELSE IF o.exc = "HTTPStatusError" /\ o.hint.form = "date" /\ o.hint.v > 0
    THEN Min(o.hint.v, MaxWait)
    ELSE wait_exponential(n)

\* The tag an outcome leaves in the history: its status, or its class.
Tag(o) == IF o.exc \in {"none", "HTTPStatusError"} THEN ToString(o.status) ELSE o.exc

TransportInit ==
    /\ tpc = "idle"
    /\ attempt_number = 0
    /\ upcoming_sleep = 0
    /\ last = NoOutcome
    /\ result = NoOutcome
    /\ reqs = 0
    /\ seen = <<>>
    /\ waits = <<>>
    /\ hinted = FALSE

\* handle_async_request(request): a fresh retry state for the request.
HandleRequest ==
    /\ tpc \in {"idle", "returned", "raised"}
    /\ reqs < MaxRequests
    /\ reqs' = reqs + 1
    /\ tpc' = "attempting"
    /\ attempt_number' = 1
    /\ upcoming_sleep' = 0
    /\ last' = NoOutcome
    /\ result' = NoOutcome
    /\ seen' = <<>>
    /\ waits' = <<>>
    /\ hinted' = FALSE
    /\ UNCHANGED <<todoVars, loopVars, configVars>>

\* One attempt: the wrapped transport is called, the response validated, and
\* tenacity decides: return, re-raise, or sleep and go round again.
Attempt ==
    /\ tpc = "attempting"
    /\ \E w \in WrappedOutcomes :
         LET o == AttemptOutcome(w) IN
         /\ last' = o
         /\ seen' = Append(seen, Tag(o))
         /\ hinted' = (hinted \/ (w.exc = "none" /\ w.hint.form # "none"))
         /\ IF o.exc = "none"
            THEN /\ tpc' = "returned"
                 /\ result' = o
                 /\ upcoming_sleep' = upcoming_sleep
            ELSE IF ~retry(o)
            THEN /\ tpc' = "raised"
                 /\ result' = o
                 /\ upcoming_sleep' = upcoming_sleep
            ELSE IF stop(attempt_number)
            THEN /\ tpc' = "raised"      \* reraise=True: the last exception itself
                 /\ result' = o
                 /\ upcoming_sleep' = wait(o, attempt_number)
            ELSE /\ tpc' = "waiting"
                 /\ result' = result
                 /\ upcoming_sleep' = wait(o, attempt_number)
    /\ UNCHANGED <<attempt_number, reqs, waits>>
    /\ UNCHANGED <<todoVars, loopVars, configVars>>

\* The sleep between two attempts, then the next attempt is prepared.
Sleep ==
    /\ tpc = "waiting"
    /\ waits' = Append(waits, upcoming_sleep)
    /\ attempt_number' = attempt_number + 1
    /\ tpc' = "attempting"
    /\ UNCHANGED <<upcoming_sleep, last, result, reqs, seen, hinted>>
    /\ UNCHANGED <<todoVars, loopVars, configVars>>

TransportNext == HandleRequest \/ Attempt \/ Sleep


(***************************************************************************)
(*                           THE TODO TOOLSET                              *)
(***************************************************************************)

\* Items one list holds at most.
MaxTodos == 3

Tasks == {"a", "b"}
\* The notes a call of add_notes_to_todo may pass ("" is the field's default).
Notes == {"", "n1", "n2"}

\* ToDoItem(task=task)
ToDoItem(task) == [task |-> task, completed |-> FALSE, notes |-> ""]

\* `for t in state.todos: if t.task == task:` the index of the first item the
\* scan stops at, 0 when it runs to the end.
FirstMatch(s, task) ==
    LET I == { i \in 1..Len(s) : s[i].task = task }
    IN  IF I = {} THEN 0 ELSE CHOOSE i \in I : \A j \in I : i <= j

\* The text a tool returns: "<kind>: <task>", or the listing.
Text(kind, task) == [kind |-> kind, task |-> task, lines |-> <<>>]

\* A tool call's effect: the list after it and the value returned.
add_todo(s, task) ==
    [todos |-> Append(s, ToDoItem(task)), ret |-> Text("Added", task)]

\* A mutant: a task that is not in the list is added, completed.
complete_todo_Upsert(s, task) ==
    LET k == FirstMatch(s, task)
    IN  IF k = 0
        THEN [todos |-> Append(s, [ToDoItem(task) EXCEPT !.completed = TRUE]),
              ret |-> Text("Completed", task)]
        ELSE [todos |-> [s EXCEPT ![k].completed = TRUE], ret |-> Text("Completed", task)]

complete_todo(s, task) ==
    LET k == FirstMatch(s, task)
    IN  IF k = 0
        THEN [todos |-> s, ret |-> Text("Not found", task)]
        ELSE [todos |-> [s EXCEPT ![k].completed = TRUE], ret |-> Text("Completed", task)]

\* A mutant: the notes are appended to the item's notes.
add_notes_to_todo_Append(s, task, notes) ==
    LET k == FirstMatch(s, task)
    IN  IF k = 0
        THEN [todos |-> s, ret |-> Text("Not found", task)]
        ELSE [todos |-> [s EXCEPT ![k].notes = @ \o notes], ret |-> Text("Noted", task)]

add_notes_to_todo(s, task, notes) ==
    LET k == FirstMatch(s, task)
    IN  IF k = 0
        THEN [todos |-> s, ret |-> Text("Not found", task)]
        ELSE [todos |-> [s EXCEPT ![k].notes = notes], ret |-> Text("Noted", task)]

\* One line of the listing, f"{i}. {status} {t.task}" + (f" - {t.notes}" if
\* t.notes else ""): the number, the glyph ("done" for the check mark, "pending"
\* for the circle), the task, and the notes behind the dash ("" when the line
\* has no dash).
Line(i, t) ==
    [n |-> i, status |-> IF t.completed THEN "done" ELSE "pending",
     task |-> t.task, notes |-> t.notes]

\* A mutant: the glyphs are swapped.
list_todos_Swapped(s) ==
    IF s = <<>>
    THEN [kind |-> "No todos.", task |-> "", lines |-> <<>>]
    ELSE [kind |-> "Todos:", task |-> "",
          lines |-> [i \in 1..Len(s) |-> Line(i, [s[i] EXCEPT !.completed = ~@])]]

\* list_todos: "No todos." or the header "Todos:" and one line per item.
list_todos(s) ==
    IF s = <<>>
    THEN [kind |-> "No todos.", task |-> "", lines |-> <<>>]
    ELSE [kind |-> "Todos:", task |-> "", lines |-> [i \in 1..Len(s) |-> Line(i, s[i])]]

NoOp == [name |-> "none", task |-> "", notes |-> ""]
NoPhase == [seq |-> "none", task |-> ""]

\* state = ToDoList(): each toolset starts from its own empty list.
TodoInit ==
    /\ todos = <<>>
    /\ ret = Text("", "")
    /\ op = NoOp
    /\ prev = <<>>
    /\ phase = NoPhase

AddTodo ==
    /\ Len(todos) < MaxTodos
    /\ \E t \in Tasks :
         LET r == add_todo(todos, t) IN
         /\ todos' = r.todos
         /\ ret' = r.ret
         /\ op' = [name |-> "add", task |-> t, notes |-> ""]
         /\ phase' = [seq |-> "add", task |-> t]
    /\ prev' = todos
    /\ UNCHANGED <<transportVars, loopVars, configVars>>

CompleteTodo ==
    /\ \E t \in Tasks :
         LET r == complete_todo(todos, t) IN
         /\ todos' = r.todos
         /\ ret' = r.ret
         /\ op' = [name |-> "complete", task |-> t, notes |-> ""]
         /\ phase' = IF phase = [seq |-> "add", task |-> t]
                     THEN [seq |-> "add_complete", task |-> t]
                     ELSE NoPhase
    /\ prev' = todos
    /\ UNCHANGED <<transportVars, loopVars, configVars>>

AddNotesToTodo ==
    /\ \E t \in Tasks, n \in Notes :
         LET r == add_notes_to_todo(todos, t, n) IN
         /\ todos' = r.todos
         /\ ret' = r.ret
         /\ op' = [name |-> "annotate", task |-> t, notes |-> n]
    /\ phase' = NoPhase
    /\ prev' = todos
    /\ UNCHANGED <<transportVars, loopVars, configVars>>

ListTodos ==
    /\ ret' = list_todos(todos)
    /\ op' = [name |-> "list", task |-> "", notes |-> ""]
    /\ phase' = IF phase.seq = "add" THEN [phase EXCEPT !.seq = "add_list"]
                ELSE IF phase.seq = "add_complete"
                THEN [phase EXCEPT !.seq = "add_complete_list"]
                ELSE NoPhase
    /\ prev' = todos
    /\ UNCHANGED todos
    /\ UNCHANGED <<transportVars, loopVars, configVars>>

TodoNext == AddTodo \/ CompleteTodo \/ AddNotesToTodo \/ ListTodos

(***************************************************************************)
(*                       THE AGENT RUN EVENT LOOP                          *)
(***************************************************************************)

\* Nodes one run yields at most, stream events one run emits at most, and the
\* length of the long fragment (longer than the text limit; two of them are
\* longer than the thinking limit).
MaxSteps == 3
MaxEvents == 2
LongLen == 260

\* thinking_buffer[:500], text_buffer[:200]
ThinkingLimit == 500
TextLimit == 200

\* Fragments of streamed content: strings, as sequences of characters.
ShortFrag == <<"a">>
LongFrag == [i \in 1..LongLen |-> "x"]
Frags == {ShortFrag, LongFrag}

\* The nodes a run yields.  label: the user prompt of a user prompt node, the
\* type name of a node that is none of the three kinds the loop knows.
Node(kind, label) == [kind |-> kind, label |-> label]
Nodes ==
    { Node("UserPrompt", "hi"), Node("ModelRequest", ""), Node("CallTools", ""),
      Node("Other", "End") }
Scripts == UNION { [1..n -> Nodes] : n \in 0..MaxSteps }

\* The events of a model request stream.
Event(type, delta, content) == [type |-> type, delta |-> delta, content |-> content]
StreamEvents ==
    { Event("PartStart", "none", <<>>), Event("FinalResult", "none", <<>>),
      Event("PartDelta", "ToolCall", <<>>) }
        \cup { Event("PartDelta", d, f) : d \in {"Thinking", "Text"}, f \in Frags }

\* One call of the logger.  ell: the "..." that follows a cut buffer.
LogRec(level, tag, num, label, text, ell) ==
    [level |-> level, tag |-> tag, num |-> num, label |-> label, text |-> text, ell |-> ell]
Plain(level, tag, num, label) == LogRec(level, tag, num, label, <<>>, FALSE)

\* buffer[:limit]
Truncate(buf, limit) == SubSeq(buf, 1, Min(Len(buf), limit))

\* The log lines at the end of a model request stream.
BufferLines(thinking, text) ==
    (IF thinking # <<>>
     THEN << LogRec("info", "Thinking", 0, "", Truncate(thinking, ThinkingLimit),
                    Len(thinking) > ThinkingLimit) >>
     ELSE <<>>)
    \o
    (IF text # <<>>
     THEN << LogRec("debug", "Response", 0, "", Truncate(text, TextLimit),
                    Len(text) > TextLimit) >>
     ELSE <<>>)

LoopInit(s) ==
    /\ lpc = "iter"
    /\ run = s
    /\ script = s
    /\ step_count = 0
    /\ thinking_buffer = <<>>
    /\ text_buffer = <<>>
    /\ log = <<>>
    /\ events = <<>>
    /\ budget = MaxEvents

\* `async for node in run: step_count += 1; logger.debug("--- Step ...")`: what
\* every iteration begins with.
BeginStep(kind) ==
    /\ lpc = "iter"
    /\ run # <<>>
    /\ Head(run).kind = kind
    /\ run' = Tail(run)
    /\ step_count' = step_count + 1

StepLine == Plain("debug", "Step", step_count + 1, "")

UserPromptNode ==
    /\ BeginStep("UserPrompt")
    /\ log' = log \o << StepLine, Plain("debug", "UserPrompt", 0, Head(run).label) >>
    /\ UNCHANGED <<lpc, script, thinking_buffer, text_buffer, events, budget>>
    /\ UNCHANGED <<transportVars, todoVars, configVars>>

\* A mutant: the buffers are not emptied when a stream opens.
ModelRequestNode_KeepBuffers ==
    /\ BeginStep("ModelRequest")
    /\ log' = log \o << StepLine, Plain("debug", "ModelRequestNode", 0, "") >>
    /\ events' = <<>>
    /\ lpc' = "stream"
    /\ UNCHANGED <<script, budget, thinking_buffer, text_buffer>>
    /\ UNCHANGED <<transportVars, todoVars, configVars>>

ModelRequestNode ==
    /\ BeginStep("ModelRequest")
    /\ log' = log \o << StepLine, Plain("debug", "ModelRequestNode", 0, "") >>
    /\ thinking_buffer' = <<>>
    /\ text_buffer' = <<>>
    /\ events' = <<>>
    /\ lpc' = "stream"
    /\ UNCHANGED <<script, budget>>
    /\ UNCHANGED <<transportVars, todoVars, configVars>>

\* `async for event in stream:` one event of the model request stream.
StreamEvent ==
    /\ lpc = "stream"
    /\ budget > 0
    /\ budget' = budget - 1
    /\ \E e \in StreamEvents :
         /\ events' = Append(events, e)
         /\ IF e.type = "PartStart"
            THEN /\ log' = Append(log, Plain("debug", "PartStart", 0, "TextPart"))
                 /\ UNCHANGED <<thinking_buffer, text_buffer>>
            ELSE IF e.type = "PartDelta" /\ e.delta = "Thinking"
            THEN /\ thinking_buffer' = thinking_buffer \o e.content
                 /\ UNCHANGED <<text_buffer, log>>
            ELSE IF e.type = "PartDelta" /\ e.delta = "Text"
            THEN /\ text_buffer' = text_buffer \o e.content
                 /\ UNCHANGED <<thinking_buffer, log>>
            ELSE IF e.type = "PartDelta" /\ e.delta = "ToolCall"
            THEN /\ log' = Append(log, Plain("debug", "ToolCall", 0, ""))
                 /\ UNCHANGED <<thinking_buffer, text_buffer>>
            ELSE UNCHANGED <<thinking_buffer, text_buffer, log>>
    /\ UNCHANGED <<lpc, run, script, step_count>>
    /\ UNCHANGED <<transportVars, todoVars, configVars>>

\* The stream is exhausted: the buffers are logged and the step ends.
EndStream ==
    /\ lpc = "stream"
    /\ log' = log \o BufferLines(thinking_buffer, text_buffer)
    /\ lpc' = "iter"
    /\ UNCHANGED <<run, script, step_count, thinking_buffer, text_buffer, events, budget>>
    /\ UNCHANGED <<transportVars, todoVars, configVars>>

CallToolsNode ==
    /\ BeginStep("CallTools")
    /\ log' = log \o << StepLine, Plain("debug", "CallToolsNode", 0, "") >>
    /\ lpc' = "tools"
    /\ UNCHANGED <<script, thinking_buffer, text_buffer, events, budget>>
    /\ UNCHANGED <<transportVars, todoVars, configVars>>

\* `async for event in handle_stream:` one tool event, logged.
ToolEvent ==
    /\ lpc = "tools"
    /\ budget > 0
    /\ budget' = budget - 1
    /\ log' = Append(log, Plain("debug", "ToolEvent", 0, ""))
    /\ UNCHANGED <<lpc, run, script, step_count, thinking_buffer, text_buffer, events>>
    /\ UNCHANGED <<transportVars, todoVars, configVars>>

EndTools ==
    /\ lpc = "tools"
    /\ lpc' = "iter"
    /\ UNCHANGED <<run, script, step_count, thinking_buffer, text_buffer, log, events, budget>>
    /\ UNCHANGED <<transportVars, todoVars, configVars>>

\* A mutant: a node of an unknown type ends the loop.
UnknownNode_Halts ==
    /\ BeginStep("Other")
    /\ log' = log \o << StepLine, Plain("info", "Unknown", 0, Head(run).label),
                        Plain("info", "Completed", step_count + 1, "") >>
    /\ lpc' = "done"
    /\ UNCHANGED <<script, thinking_buffer, text_buffer, events, budget>>
    /\ UNCHANGED <<transportVars, todoVars, configVars>>

UnknownNode ==
    /\ BeginStep("Other")
    /\ log' = log \o << StepLine, Plain("info", "Unknown", 0, Head(run).label) >>
    /\ UNCHANGED <<lpc, script, thinking_buffer, text_buffer, events, budget>>
    /\ UNCHANGED <<transportVars, todoVars, configVars>>

\* The producer is exhausted: the total is logged and the loop returns.
Exhausted ==
    /\ lpc = "iter"
    /\ run = <<>>
    /\ log' = Append(log, Plain("info", "Completed", step_count, ""))
    /\ lpc' = "done"
    /\ UNCHANGED <<run, script, step_count, thinking_buffer, text_buffer, events, budget>>
    /\ UNCHANGED <<transportVars, todoVars, configVars>>

LoopNext ==
    \/ UserPromptNode
    \/ ModelRequestNode
    \/ StreamEvent
    \/ EndStream
    \/ CallToolsNode
    \/ ToolEvent
    \/ EndTools
    \/ UnknownNode
    \/ Exhausted

(***************************************************************************)
(*                   BUILDING THE AGENTS OF A RUN                          *)
(***************************************************************************)

\* Sub-agents one agent file names at most, and requests one agent attempts
\* at most.
MaxSubAgents == 2
MaxModelRequests == 2

\* Model identifiers, as the pieces str.split(":") cuts them at.
ModelIds ==
    { <<"anthropic", ":", "m">>, <<"openai", ":", "m">>, <<"google", ":", "m">>,
      <<"mistral", ":", "m">>, <<"gpt-4">> }

\* str.split(":")
RECURSIVE split(_)
split(s) ==
    LET I == { i \in 1..Len(s) : s[i] = ":" }
    IN  IF I = {} THEN << s >>
        ELSE LET i == CHOOSE k \in I : \A j \in I : k <= j
             IN  << SubSeq(s, 1, i - 1) >> \o split(SubSeq(s, i + 1, Len(s)))

\* AgentSpec.provider_model: "ok" when it returns a model, else the exception
\* it raises.  Nothing in it sends a request.
provider_model(model, hasGeminiKey) ==
    IF Len(split(model)) < 2 THEN "IndexError"
    ELSE LET provider == split(model)[1]
         IN  CASE provider = <<"anthropic">> -> "ok"
               [] provider = <<"openai">>    -> "ok"
               [] provider = <<"google">>    ->
                      IF hasGeminiKey THEN "ok" ELSE "AssertionError"
               [] OTHER                      -> "ValueError"

\* The agent files of a run: the file main() is asked for, and the files its
\* agent_tools name.
AgentFile(exists, model) == [exists |-> exists, model |-> model]
AgentFiles == { AgentFile(e, m) : e \in BOOLEAN, m \in ModelIds }
Configs ==
    { [top |-> t, subs |-> ss] :
        t \in AgentFiles,
        ss \in UNION { [1..n -> AgentFiles] : n \in 0..MaxSubAgents } }
NoConfig == [top |-> AgentFile(FALSE, <<"gpt-4">>), subs |-> <<>>]

ConfigInit(c) ==
    /\ cpc = "start"
    /\ cfg = c
    /\ error = "none"
    /\ failedAgent = -1
    /\ topRequests = 0
    /\ subRequests = 0

Fail(exc, agent) ==
    /\ cpc' = "failed"
    /\ error' = exc
    /\ failedAgent' = agent

\* AgentSpec.from_agent(agent_name, ...) in main(): the file must exist, and so
\* must the file of every agent tool, which is loaded and wrapped by _as_tool.
LoadSpec ==
    /\ cpc = "start"
    /\ IF ~cfg.top.exists \/ \E i \in 1..Len(cfg.subs) : ~cfg.subs[i].exists
       THEN Fail("AssertionError", 0)
       ELSE /\ cpc' = "loaded"
            /\ UNCHANGED <<error, failedAgent>>
    /\ UNCHANGED <<cfg, topRequests, subRequests>>
    /\ UNCHANGED <<transportVars, todoVars, loopVars>>

\* Agent(model=agent_spec.provider_model, ...) in main(); the key main() passes
\* is Settings.GEMINI_API_KEY, which has a default and is never None.
BuildAgent ==
    /\ cpc = "loaded"
    /\ LET r == provider_model(cfg.top.model, TRUE)
       IN  IF r = "ok"
           THEN /\ cpc' = "running"
                /\ UNCHANGED <<error, failedAgent>>
           ELSE Fail(r, 0)
    /\ UNCHANGED <<cfg, topRequests, subRequests>>
    /\ UNCHANGED <<transportVars, todoVars, loopVars>>

\* The run of the top-level agent sends a request to its provider.
TopModelRequest ==
    /\ cpc = "running"
    /\ topRequests < MaxModelRequests
    /\ topRequests' = topRequests + 1
    /\ UNCHANGED <<cpc, cfg, error, failedAgent, subRequests>>
    /\ UNCHANGED <<transportVars, todoVars, loopVars>>

\* agent_tool(ctx, query) of sub-agent i, called by the framework when a
\* response of the top-level agent's model asks for the tool: only now is the
\* sub-agent's provider_model evaluated (from_agent(tool) passed no key).
AgentTool ==
    /\ cpc = "running"
    /\ topRequests >= 1
    /\ \E i \in 1..Len(cfg.subs) :
         LET r == provider_model(cfg.subs[i].model, FALSE)
         IN  IF r = "ok"
             THEN /\ subRequests < MaxModelRequests
                  /\ subRequests' = subRequests + 1
                  /\ UNCHANGED <<cpc, error, failedAgent>>
             ELSE /\ Fail(r, i)
                  /\ UNCHANGED subRequests
    /\ UNCHANGED <<cfg, topRequests>>
    /\ UNCHANGED <<transportVars, todoVars, loopVars>>

\* The run ends with the model's final answer.
Finish ==
    /\ cpc = "running"
    /\ topRequests >= 1
    /\ cpc' = "done"
    /\ UNCHANGED <<cfg, error, failedAgent, topRequests, subRequests>>
    /\ UNCHANGED <<transportVars, todoVars, loopVars>>

ConfigNext == LoadSpec \/ BuildAgent \/ TopModelRequest \/ AgentTool \/ Finish

(***************************************************************************)
(*                          THE SPECIFICATIONS                             *)
(***************************************************************************)

InitRetry == TransportInit /\ TodoInit /\ LoopInit(<<>>) /\ ConfigInit(NoConfig)
SpecRetry == InitRetry /\ [][TransportNext]_vars

InitTodo == TransportInit /\ TodoInit /\ LoopInit(<<>>) /\ ConfigInit(NoConfig)
SpecTodo == InitTodo /\ [][TodoNext]_vars

InitLoop == TransportInit /\ TodoInit /\ ConfigInit(NoConfig) /\ \E s \in Scripts : LoopInit(s)
SpecLoop == InitLoop /\ [][LoopNext]_vars

InitConfig == TransportInit /\ TodoInit /\ LoopInit(<<>>) /\ \E c \in Configs : ConfigInit(c)
SpecConfig == InitConfig /\ [][ConfigNext]_vars

(***************************************************************************)
(*                       THE RETRYING TRANSPORT: CLAIMS                    *)
(***************************************************************************)

Finished == tpc \in {"returned", "raised"}
Throttled == {"429", "529"}
AllThrottled == \A i \in 1..Len(seen) : seen[i] \in Throttled

\* C1: a request makes at most 5 attempts; a request that got a 429 or a 529
\* was retried at least once; a request whose every attempt got a 429 or a 529
\* makes exactly 5 attempts and then raises the last status failure to the
\* caller; the attempt counter of every request starts at 1.
C1_RetryCeiling ==
    /\ Len(seen) <= MaxAttempts
    /\ tpc # "idle" => attempt_number \in 1..MaxAttempts
    /\ tpc = "attempting" => attempt_number = Len(seen) + 1
    /\ (Finished /\ \E i \in 1..Len(seen) : seen[i] \in Throttled) => Len(seen) >= 2
    /\ (Finished /\ AllThrottled) =>
           /\ Len(seen) = 5
           /\ tpc = "raised"
           /\ result = last
           /\ result.exc = "HTTPStatusError"
           /\ ToString(result.status) = seen[5]

\* The second request of a behaviour got five 429/529 answers and raised the 529.
C1_Witness ==
    /\ reqs = 2
    /\ tpc = "raised"
    /\ Len(seen) = 5
    /\ AllThrottled
    /\ result.status = 529

\* C2: a response whose status is neither 429 nor 529 is returned to the caller
\* as it is, on the attempt that received it, and nothing is retried after it.
C2_OtherStatusReturned ==
    (seen # <<>> /\ last.exc \in {"none", "HTTPStatusError"} /\ last.status \notin {429, 529}) =>
        /\ tpc = "returned"
        /\ result = last
        /\ result.exc = "none"
        /\ Len(waits) = Len(seen) - 1
        /\ attempt_number = Len(seen)

\* A 500 answered the third attempt, after two throttled ones, and was returned.
C2_Witness ==
    /\ tpc = "returned"
    /\ result.status = 500
    /\ seen = <<"429", "529", "500">>

\* C3: while no response of the request carried a retry-after header, the n-th
\* wait is min(2^(n-1), 60) and the waits of the request sum to at most 300.
C3_Backoff ==
    ~hinted =>
        /\ \A n \in 1..Len(waits) : waits[n] = Min(Pow2(n - 1), 60)
        /\ SumSeq(waits) <= 300

\* Four waits without a hint: 1, 2, 4, 8.
C3_Witness ==
    /\ ~hinted
    /\ waits = <<1, 2, 4, 8>>

\* C4: a connection failure the HTTP client raises is retried like a 429: the
\* caller sees it only after the fifth attempt.
C4_ConnectionFailureRetried ==
    (tpc = "raised" /\ result.exc \in ClientConnectionFailures) => Len(seen) = MaxAttempts

(***************************************************************************)
(*                          THE TODO TOOLSET: CLAIMS                       *)
(***************************************************************************)

\* C6, as amended: after add(t); list() the last line shows t pending; after
\* add(t); complete(t); list() the first item whose task is t is shown done,
\* which is the item just added when no earlier item has that task; with an
\* earlier item of that task, the item just added is still shown pending.
C6_AddCompleteList ==
    /\ phase.seq = "add_list" =>
           /\ ret.kind = "Todos:"
           /\ Len(ret.lines) = Len(todos)
           /\ ret.lines[Len(todos)] =
                  [n |-> Len(todos), status |-> "pending", task |-> phase.task, notes |-> ""]
    /\ phase.seq = "add_complete_list" =>
           LET k == FirstMatch(todos, phase.task) IN
           /\ ret.kind = "Todos:"
           /\ Len(ret.lines) = Len(todos)
           /\ k \in 1..Len(todos)
           /\ ret.lines[k].n = k
           /\ ret.lines[k].task = phase.task
           /\ ret.lines[k].status = "done"
           /\ k < Len(todos) =>
                  ret.lines[Len(todos)] =
                      [n |-> Len(todos), status |-> "pending", task |-> phase.task, notes |-> ""]

\* add(t); complete(t); list() on a list that already held an item of task t.
C6_Witness ==
    /\ phase.seq = "add_complete_list"
    /\ FirstMatch(todos, phase.task) < Len(todos)
    /\ ret.lines[FirstMatch(todos, phase.task)].status = "done"

\* C6 as claimed: after add(t); complete(t); list() the item just added is
\* shown done.
C6_JustAddedShownDone ==
    /\ phase.seq = "add_list" => ret.lines[Len(todos)].status = "pending"
    /\ phase.seq = "add_complete_list" =>
           /\ ret.lines[Len(todos)].task = phase.task
           /\ ret.lines[Len(todos)].status = "done"

\* C7: complete(t) and annotate(t, notes) for a task no item has return the
\* "Not found" text and leave the list as it was.
C7_MissIsNoOp ==
    (op.name \in {"complete", "annotate"} /\ \A i \in 1..Len(prev) : prev[i].task # op.task) =>
        /\ ret.kind = "Not found"
        /\ ret.task = op.task
        /\ Len(todos) = Len(prev)
        /\ \A i \in 1..Len(prev) : todos[i] = prev[i]

\* complete("b") on a list of two items, neither of task "b", one of them noted.
C7_Witness ==
    /\ op.name = "complete"
    /\ Len(prev) = 2
    /\ \A i \in 1..Len(prev) : prev[i].task # op.task
    /\ \E i \in 1..Len(prev) : prev[i].notes # ""
    /\ ret.kind = "Not found"

\* C8: complete(t) and annotate(t, notes) change the first item of task t and
\* nothing else: annotate replaces its notes, complete sets its flag, the other
\* items, the length and the order stay, and the same call again changes nothing.
C8_FirstMatchOnly ==
    (op.name \in {"complete", "annotate"} /\ \E i \in 1..Len(prev) : prev[i].task = op.task) =>
        \E k \in 1..Len(prev) :
            /\ prev[k].task = op.task
            /\ \A j \in 1..(k - 1) : prev[j].task # op.task
            /\ Len(todos) = Len(prev)
            /\ \A i \in 1..Len(prev) : i # k => todos[i] = prev[i]
            /\ todos[k].task = prev[k].task
            /\ op.name = "complete" =>
                   /\ todos[k].completed
                   /\ todos[k].notes = prev[k].notes
                   /\ complete_todo(todos, op.task).todos = todos
            /\ op.name = "annotate" =>
                   /\ todos[k].notes = op.notes
                   /\ todos[k].completed = prev[k].completed
                   /\ add_notes_to_todo(todos, op.task, op.notes).todos = todos

\* annotate(t, notes) on a list with two items of task t, the first with other
\* notes already.
C8_Witness ==
    /\ op.name = "annotate"
    /\ op.notes # ""
    /\ \E k, j \in 1..Len(prev) :
         /\ k < j
         /\ prev[k].task = op.task
         /\ prev[j].task = op.task
         /\ prev[k].notes \notin {"", op.notes}
         /\ todos[k].notes = op.notes

(***************************************************************************)
(*                      THE AGENT RUN EVENT LOOP: CLAIMS                   *)
(***************************************************************************)

IsStepLine(r) == r.tag = "Step"
IsNodeLine(r) == r.tag \in {"UserPrompt", "ModelRequestNode", "CallToolsNode", "Unknown"}
IsBufferLine(r) == r.tag \in {"Thinking", "Response"}

\* The log line that names a node of each kind.
NodeTag(kind) ==
    CASE kind = "UserPrompt"   -> "UserPrompt"
      [] kind = "ModelRequest" -> "ModelRequestNode"
      [] kind = "CallTools"    -> "CallToolsNode"
      [] OTHER                 -> "Unknown"

\* C9: the loop consumes the nodes in the order the producer yields them and
\* numbers them 1, 2, ..., one increment a node; a node of an unknown type is
\* logged and the nodes after it are still consumed; when the producer is
\* exhausted the total logged is the number of nodes it yielded.
C9_EveryStepCounted ==
    LET steps == SelectSeq(log, IsStepLine)
        nodes == SelectSeq(log, IsNodeLine)
    IN  /\ step_count = Len(script) - Len(run)
        /\ run = SubSeq(script, step_count + 1, Len(script))
        /\ Len(steps) = step_count
        /\ \A i \in 1..Len(steps) : steps[i].num = i
        /\ Len(nodes) = step_count
        /\ \A i \in 1..Len(nodes) : nodes[i].tag = NodeTag(script[i].kind)
        /\ lpc = "done" =>
               /\ run = <<>>
               /\ step_count = Len(script)
               /\ log[Len(log)].tag = "Completed"
               /\ log[Len(log)].num = Len(script)

\* A run of three nodes, the first of an unknown type, has ended.
C9_Witness ==
    /\ lpc = "done"
    /\ Len(script) = 3
    /\ script[1].kind = "Other"
    /\ script[2].kind = "ModelRequest"
    /\ log[Len(log)].num = 3

\* The fragments of the deltas of kind d among the events, concatenated in order.
RECURSIVE FragsOf(_, _)
FragsOf(es, d) ==
    IF es = <<>> THEN <<>>
    ELSE (IF Head(es).type = "PartDelta" /\ Head(es).delta = d THEN Head(es).content ELSE <<>>)
             \o FragsOf(Tail(es), d)

\* The log lines of the latest model request step: those behind its
\* "ModelRequestNode" line, up to the next step's line or the end.
LatestModelStepLines ==
    LET M == { i \in 1..Len(log) : log[i].tag = "ModelRequestNode" }
    IN  IF M = {} THEN <<>>
        ELSE LET m == CHOOSE i \in M : \A j \in M : j <= i
                 E == { i \in (m + 1)..Len(log) : log[i].tag \in {"Step", "Completed"} }
                 e == IF E = {} THEN Len(log) + 1 ELSE CHOOSE i \in E : \A j \in E : i <= j
             IN  SubSeq(log, m + 1, e - 1)

Shown(r) == <<r.tag, r.text, r.ell>>

\* What the end of a step logs for a buffer: nothing when it is empty, else
\* one line of its first `limit` characters, marked when it was cut.
Expected(tag, buf, limit) ==
    IF buf = <<>> THEN <<>>
    ELSE << <<tag, [i \in 1..Min(Len(buf), limit) |-> buf[i]], Len(buf) > limit>> >>

\* C10: during a model request step the text buffer is the concatenation of
\* the step's TextDelta fragments in arrival order and the thinking buffer that
\* of its ThinkingDelta fragments, whatever other events and earlier steps there
\* were; when the stream is exhausted each buffer that is not empty is logged
\* once, the thinking cut to 500 characters and the text to 200.
C10_Buffers ==
    LET th == FragsOf(events, "Thinking")
        tx == FragsOf(events, "Text")
        lines == SelectSeq(LatestModelStepLines, IsBufferLine)
    IN  /\ lpc = "stream" =>
               /\ thinking_buffer = th
               /\ text_buffer = tx
               /\ lines = <<>>
        /\ (lpc # "stream" /\ \E i \in 1..Len(log) : log[i].tag = "ModelRequestNode") =>
               [i \in 1..Len(lines) |-> Shown(lines[i])]
                   = Expected("Thinking", th, 500) \o Expected("Response", tx, 200)

\* Two model request steps: the first streamed the long text fragment and its
\* log line was cut, the second streamed only the short one.
C10_Witness ==
    /\ lpc = "iter"
    /\ step_count = 2
    /\ events = << Event("PartDelta", "Text", ShortFrag) >>
    /\ \E i \in 1..Len(log) : log[i].tag = "Response" /\ log[i].ell /\ Len(log[i].text) = 200
    /\ log[Len(log)].tag = "Response"
    /\ log[Len(log)].text = ShortFrag

(***************************************************************************)
(*                    BUILDING THE AGENTS OF A RUN: CLAIMS                 *)
(***************************************************************************)

\* C5: a model identifier without a recognized provider prefix raises its
\* error before any request to a model provider is attempted, for the
\* top-level agent and for a sub-agent.
C5_PrefixErrorBeforeAnyRequest ==
    (cpc = "failed" /\ error \in {"ValueError", "IndexError"}) =>
        topRequests + subRequests = 0

=============================================================================
